---------------------------- MODULE Spec2Model ----------------------------
(***************************************************************************)
(* Model of the speech-to-document application.                            *)
(*                                                                         *)
(*   - RecordingComponent.js: the transcript accumulator.  The recognizer  *)
(*     callbacks (browser SpeechRecognition and the native Voice module)   *)
(*     are the actions; the React state and the refs are the variables.    *)
(*   - DocumentGeneratorComponent.js (second half): the generation proxy,  *)
(*     POST /api/generate, one action per stretch of the handler between   *)
(*     two suspension points.                                              *)
(*   - RecordingComponent.js, startRecording: the start button, from the   *)
(*     press to the recognizer's start (StartSpec).                        *)
(*   - DocumentGeneratorComponent.js (first half): the client, its         *)
(*     generation requests and its SMS sends (ClientSpec).                 *)
(*                                                                         *)
(* A JavaScript string that the code takes apart (trim, join, concat) is   *)
(* a sequence of one-character strings; a string the code only passes on   *)
(* (an error message, a model name, generated content) is a TLA+ string.   *)
(* Korean literals of the source are transliterated (ASCII only).          *)
(***************************************************************************)
EXTENDS Naturals, Sequences, FiniteSets

(***************************************************************************)
(* Bounds of the model.                                                    *)
(***************************************************************************)
\* longest result list (e.results) the browser recognizer delivers
MaxResults == 2
\* number of recording sessions (start events) in one run
MaxSessions == 2
\* longest native transcript that still accepts a result event
MaxTranscript == 2
\* longest request text of a generation request
MaxTextLen == 3
\* number of requests the proxy receives in one run
MaxRequests == 1
\* number of start requests whose asynchronous part has not run yet
MaxPending == 1
\* number of generation requests the client issues in one run
MaxGenerations == 2
\* number of sendSMS calls in one run
MaxSms == 1

VARIABLES
    platform,              \* Platform.OS: "web" or "native"
    isRecording,           \* useState(false)
    transcribedText,       \* useState('')
    errorMessage,          \* useState('')
    recordingHistory,      \* useState([]): sequence of [id, text, timestamp]
    lastFinalIndexRef,     \* useRef(0)
    accumulatedFinalRef,   \* useRef('')
    currentSessionIdRef,   \* useRef(null); null is modelled as 0
    results,               \* the recognizer's result list of the current session
    recognizing,           \* the browser recognizer is between start and end
    ended,                 \* history variable: history indices whose end event arrived
    startEvents,           \* history variable: number of start events delivered
    micPermission,         \* the platform's microphone permission: "granted" or "denied"
    startPending,          \* startRecording calls awaiting getUserMedia / Voice.start
    startRequested,        \* the recognizer was started and has not reported it yet
    envModel,              \* process.env.GEMINI_MODEL ("" when unset)
    handler,               \* per request: the state of the /api/generate handler
    generatedDocument,     \* DocumentGeneratorComponent: useState('')
    editedDocument,        \* useState('')
    phoneNumber,           \* useState('')
    isGenerating,          \* useState(false)
    error,                 \* useState('')
    selectedRecording,     \* useState(null); null is modelled as 0, else the id
    generations,           \* the generateDocument calls: text sent, position, outcome
    sms                    \* the sendSMS calls: captured arguments, position, outcome

recVars == <<platform, isRecording, transcribedText, errorMessage,
             recordingHistory, lastFinalIndexRef, accumulatedFinalRef,
             currentSessionIdRef, results, recognizing, ended, startEvents,
             micPermission, startPending, startRequested>>
startVars == <<micPermission, startPending, startRequested>>
proxyVars == <<envModel, handler>>
clientVars == <<generatedDocument, editedDocument, phoneNumber, isGenerating,
                error, selectedRecording, generations, sms>>
vars == <<platform, isRecording, transcribedText, errorMessage,
          recordingHistory, lastFinalIndexRef, accumulatedFinalRef,
          currentSessionIdRef, results, recognizing, ended, startEvents,
          micPermission, startPending, startRequested,
          envModel, handler,
          generatedDocument, editedDocument, phoneNumber, isGenerating,
          error, selectedRecording, generations, sms>>

(***************************************************************************)
(* JavaScript string helpers.                                              *)
(***************************************************************************)
SPACE == " "

RECURSIVE TrimStart(_)
TrimStart(s) ==
    IF s # <<>> /\ Head(s) = SPACE THEN TrimStart(Tail(s)) ELSE s

RECURSIVE TrimEnd(_)
TrimEnd(s) ==
    IF s # <<>> /\ s[Len(s)] = SPACE THEN TrimEnd(SubSeq(s, 1, Len(s) - 1)) ELSE s

\* String.prototype.trim
Trim(s) == TrimEnd(TrimStart(s))

\* [a, b].filter(Boolean).join(' ')
JoinTruthy(a, b) ==
    IF a = <<>> THEN b
    ELSE IF b = <<>> THEN a
    ELSE a \o <<SPACE>> \o b

\* Array.prototype.join(' ')
RECURSIVE JoinSpace(_)
JoinSpace(parts) ==
    IF parts = <<>> THEN <<>>
    ELSE IF Len(parts) = 1 THEN parts[1]
    ELSE parts[1] \o <<SPACE>> \o JoinSpace(Tail(parts))

IsPrefix(s, t) == Len(s) <= Len(t) /\ SubSeq(t, 1, Len(s)) = s

(***************************************************************************)
(* The recognizer (environment).                                           *)
(***************************************************************************)
\* the transcript of the result at index i (1-based) is its own word, or
\* empty (a result whose first alternative is missing or has no text:
\* res[0]?.transcript || ''), so that a text shows which results it holds
Words == <<"a", "b", "c", "d">>
Chunks(i) == {<<>>, <<Words[i]>>}

ResultValues(i) == [transcript : Chunks(i), isFinal : BOOLEAN]

\* the result lists of length n the recognizer may deliver after list r:
\* the results of r stay at their indices, a final result never changes, an
\* interim result may be revised or turn final, new results are added at
\* the end
RECURSIVE BatchesOfLen(_, _)
BatchesOfLen(r, n) ==
    IF n = 0 THEN {<<>>}
    ELSE { Append(p, v) :
             p \in BatchesOfLen(r, n - 1),
             v \in (IF n <= Len(r) /\ r[n].isFinal THEN {r[n]}
                    ELSE ResultValues(n)) }

NextBatches(r) ==
    UNION { BatchesOfLen(r, n) :
              n \in (IF Len(r) = 0 THEN 1 ELSE Len(r))..MaxResults }

\* e.value of a native result event: an array of strings, possibly empty
NativeValues == {<<>>, <<<<"a">>>>, <<<<"a">>, <<"b">>>>}

\* e.error of a recognizer error event
ErrorCodes == {"no-speech"}

\* the message of a recognizer error event ('recognition error: ' + e.error)
RecognitionError(code) == <<"recognition error: ", code>>
\* the message of the catch of startRecording on the web
PermissionMessage == <<"microphone permission denied; allow it in the browser settings">>
\* the message of a rejected Voice.start ('start error: ' + e.message)
StartError(message) == <<"start error: ", message>>
\* e.message of a rejected Voice.start
StartFailures == {"busy"}

\* the readings Date.now() can return at a start event: a count of
\* milliseconds, so the reading of the previous start event again (the same
\* millisecond) or a later one
ClockReadings(prev) ==
    IF prev = <<>> THEN {1}
    ELSE {prev[Len(prev)].id, prev[Len(prev)].id + 1}

NoSession == 0
NoMessage == <<>>

(***************************************************************************)
(* RecordingComponent: helpers of the callbacks.                           *)
(***************************************************************************)
\* the entry a start event appends
NewSession(prev, newId) ==
    Append(prev, [id |-> newId, text |-> <<>>, timestamp |-> newId])

\* a variant that keeps the entries of the session only (filter before map)
UpdateSessionTextFilters(prev, sid, text) ==
    LET kept == SelectSeq(prev, LAMBDA r : r.id = sid)
    IN [k \in 1..Len(kept) |-> [kept[k] EXCEPT !.text = text]]

\* prev.map((r) => (r.id === sid ? { ...r, text } : r))
UpdateSessionText(prev, sid, text) ==
    [k \in 1..Len(prev) |->
        IF prev[k].id = sid THEN [prev[k] EXCEPT !.text = text] ELSE prev[k]]

\* res[0]?.transcript || ''
ChunkOf(res) == res.transcript

\* the for loop of recog.onresult, from JavaScript index i (0-based)
RECURSIVE ScanFinals(_, _, _, _)
ScanFinals(e, i, appended, last) ==
    IF i >= Len(e) THEN [appended |-> appended, last |-> last]
    ELSE IF e[i + 1].isFinal
         THEN ScanFinals(e, i + 1,
                         (IF appended # <<>> THEN appended \o <<SPACE>> ELSE <<>>)
                             \o ChunkOf(e[i + 1]),
                         i + 1)
         ELSE ScanFinals(e, i + 1, appended, last)

\* a variant that assigns the new text instead of appending it
AccumulateReplaces(acc, appended) ==
    IF appended # <<>> THEN appended ELSE acc

\* accumulatedFinalRef.current after the loop
Accumulate(acc, appended) ==
    IF appended # <<>>
    THEN (IF acc # <<>> THEN acc \o <<SPACE>> \o appended ELSE appended)
    ELSE acc

\* a variant that takes the trailing result whether final or not
InterimOfAnyLatest(e) == ChunkOf(e[Len(e)])

\* the interim fragment: the trailing result, when it is not final
InterimOf(e) ==
    IF ~e[Len(e)].isFinal THEN ChunkOf(e[Len(e)]) ELSE <<>>

\* [accumulated, interim].filter(Boolean).join(' ').trim()
DisplayOf(acc, interim) == Trim(JoinTruthy(acc, interim))

\* a variant that shows the newest result in place of what was there
AppendChunkReplaces(prevText, chunk) == chunk

\* prevText ? `${prevText} ${chunk}` : chunk
AppendChunk(prevText, chunk) ==
    IF prevText # <<>> THEN prevText \o <<SPACE>> \o chunk ELSE chunk

(***************************************************************************)
(* Initial state: the component as mounted, the proxy not modelled.        *)
(***************************************************************************)
Init ==
    /\ platform \in {"web", "native"}
    /\ isRecording = FALSE
    /\ transcribedText = <<>>
    /\ errorMessage = NoMessage
    /\ recordingHistory = <<>>
    /\ lastFinalIndexRef = 0
    /\ accumulatedFinalRef = <<>>
    /\ currentSessionIdRef = NoSession
    /\ results = <<>>
    /\ recognizing = FALSE
    /\ ended = {}
    /\ startEvents = 0
    /\ micPermission \in {"granted", "denied"}
    /\ startPending = 0
    /\ startRequested = FALSE
    /\ envModel = ""
    /\ handler = <<>>
    /\ generatedDocument = ""
    /\ editedDocument = ""
    /\ phoneNumber = ""
    /\ isGenerating = FALSE
    /\ error = <<>>
    /\ selectedRecording = 0
    /\ generations = <<>>
    /\ sms = <<>>

(***************************************************************************)
(* Browser backend: the SpeechRecognition callbacks.  The recognizer       *)
(* delivers start and end events in turn and result events only between a  *)
(* start and the next end; an error event can arrive at any time, and an   *)
(* end event also without a start (a start request that failed).           *)
(***************************************************************************)
\* a variant that leaves the accumulated text of the previous session
WebOnStartKeepsText(newId) ==
    /\ platform = "web"
    /\ ~recognizing
    /\ recognizing' = TRUE
    /\ startRequested' = FALSE
    /\ UNCHANGED <<micPermission, startPending>>
    /\ Len(recordingHistory) < MaxSessions
    /\ isRecording' = TRUE
    /\ lastFinalIndexRef' = 0
    /\ transcribedText' = <<>>
    /\ currentSessionIdRef' = newId
    /\ recordingHistory' = NewSession(recordingHistory, newId)
    /\ results' = <<>>
    /\ UNCHANGED <<platform, errorMessage, accumulatedFinalRef, ended>>
    /\ startEvents' = startEvents + 1
    /\ UNCHANGED proxyVars
    /\ UNCHANGED clientVars

WebOnStart(newId) ==
    /\ platform = "web"
    /\ ~recognizing
    /\ recognizing' = TRUE
    /\ startRequested' = FALSE
    /\ UNCHANGED <<micPermission, startPending>>
    /\ Len(recordingHistory) < MaxSessions
    /\ isRecording' = TRUE
    /\ lastFinalIndexRef' = 0
    /\ accumulatedFinalRef' = <<>>
    /\ transcribedText' = <<>>
    /\ currentSessionIdRef' = newId
    /\ recordingHistory' = NewSession(recordingHistory, newId)
    /\ results' = <<>>
    /\ UNCHANGED <<platform, errorMessage, ended>>
    /\ startEvents' = startEvents + 1
    /\ UNCHANGED proxyVars
    /\ UNCHANGED clientVars

WebOnEnd ==
    /\ platform = "web"
    /\ recognizing' = FALSE
    /\ startRequested' = FALSE
    /\ UNCHANGED <<micPermission, startPending>>
    /\ isRecording' = FALSE
    /\ currentSessionIdRef' = NoSession
    /\ ended' = IF currentSessionIdRef # NoSession
                THEN ended \cup {Len(recordingHistory)} ELSE ended
    /\ UNCHANGED <<platform, transcribedText, errorMessage, recordingHistory,
                   lastFinalIndexRef, accumulatedFinalRef, results>>
    /\ UNCHANGED startEvents
    /\ UNCHANGED proxyVars
    /\ UNCHANGED clientVars

\* a variant that treats the error as the end of the session
WebOnErrorEndsSession(code) ==
    /\ platform = "web"
    /\ errorMessage' = RecognitionError(code)
    /\ isRecording' = FALSE
    /\ currentSessionIdRef' = NoSession
    /\ UNCHANGED <<recognizing, platform, transcribedText, recordingHistory,
                   lastFinalIndexRef, accumulatedFinalRef, results, ended>>
    /\ UNCHANGED startVars
    /\ UNCHANGED startEvents
    /\ UNCHANGED proxyVars
    /\ UNCHANGED clientVars

WebOnError(code) ==
    /\ platform = "web"
    /\ errorMessage' = RecognitionError(code)
    /\ UNCHANGED <<recognizing, platform, isRecording, transcribedText, recordingHistory,
                   lastFinalIndexRef, accumulatedFinalRef, currentSessionIdRef, results, ended>>
    /\ UNCHANGED startVars
    /\ UNCHANGED startEvents
    /\ UNCHANGED proxyVars
    /\ UNCHANGED clientVars

WebOnResult(e) ==
    /\ platform = "web"
    /\ recognizing
    /\ LET scan == ScanFinals(e, lastFinalIndexRef, <<>>, lastFinalIndexRef)
           acc == Accumulate(accumulatedFinalRef, scan.appended)
           display == DisplayOf(acc, InterimOf(e))
           sid == currentSessionIdRef
       IN /\ lastFinalIndexRef' = scan.last
          /\ accumulatedFinalRef' = acc
          /\ transcribedText' = display
          /\ recordingHistory' =
                IF sid # NoSession
                THEN UpdateSessionText(recordingHistory, sid, display)
                ELSE recordingHistory
    /\ results' = e
    /\ UNCHANGED <<recognizing, platform, isRecording, errorMessage, currentSessionIdRef,
                   ended>>
    /\ UNCHANGED startVars
    /\ UNCHANGED startEvents
    /\ UNCHANGED proxyVars
    /\ UNCHANGED clientVars

(***************************************************************************)
(* Native backend: the Voice callbacks, delivered one at a time in any     *)
(* order (the platform recognizer reports the end of speech before it      *)
(* delivers the final results, and a restart reports a start again).       *)
(***************************************************************************)
NativeOnSpeechStart(newId) ==
    /\ platform = "native"
    /\ UNCHANGED startVars
    /\ Len(recordingHistory) < MaxSessions
    /\ isRecording' = TRUE
    /\ transcribedText' = <<>>
    /\ accumulatedFinalRef' = <<>>
    /\ currentSessionIdRef' = newId
    /\ recordingHistory' = NewSession(recordingHistory, newId)
    /\ UNCHANGED <<recognizing, platform, errorMessage, lastFinalIndexRef, results, ended>>
    /\ startEvents' = startEvents + 1
    /\ UNCHANGED proxyVars
    /\ UNCHANGED clientVars

NativeOnSpeechEnd ==
    /\ platform = "native"
    /\ startRequested' = FALSE
    /\ UNCHANGED <<micPermission, startPending>>
    /\ isRecording' = FALSE
    /\ currentSessionIdRef' = NoSession
    /\ ended' = IF currentSessionIdRef # NoSession
                THEN ended \cup {Len(recordingHistory)} ELSE ended
    /\ UNCHANGED <<recognizing, platform, transcribedText, errorMessage, recordingHistory,
                   lastFinalIndexRef, accumulatedFinalRef, results>>
    /\ UNCHANGED startEvents
    /\ UNCHANGED proxyVars
    /\ UNCHANGED clientVars

NativeOnSpeechError(code) ==
    /\ platform = "native"
    /\ errorMessage' = RecognitionError(code)
    /\ UNCHANGED <<recognizing, platform, isRecording, transcribedText, recordingHistory,
                   lastFinalIndexRef, accumulatedFinalRef, currentSessionIdRef, results, ended>>
    /\ UNCHANGED startVars
    /\ UNCHANGED startEvents
    /\ UNCHANGED proxyVars
    /\ UNCHANGED clientVars

\* the body shared by onSpeechPartialResults and onSpeechResults
NativeAppend(value) ==
    IF Len(value) > 0
    THEN LET updated == AppendChunk(transcribedText, JoinSpace(value))
             sid == currentSessionIdRef
         IN /\ transcribedText' = updated
            /\ recordingHistory' =
                  IF sid # NoSession
                  THEN UpdateSessionText(recordingHistory, sid, updated)
                  ELSE recordingHistory
    ELSE UNCHANGED <<transcribedText, recordingHistory>>

NativeOnSpeechPartialResults(value) ==
    /\ platform = "native"
    /\ Len(transcribedText) < MaxTranscript
    /\ NativeAppend(value)
    /\ UNCHANGED <<recognizing, platform, isRecording, errorMessage, lastFinalIndexRef,
                   accumulatedFinalRef, currentSessionIdRef, results, ended>>
    /\ UNCHANGED startVars
    /\ UNCHANGED startEvents
    /\ UNCHANGED proxyVars
    /\ UNCHANGED clientVars

NativeOnSpeechResults(value) ==
    /\ platform = "native"
    /\ Len(transcribedText) < MaxTranscript
    /\ NativeAppend(value)
    /\ UNCHANGED <<recognizing, platform, isRecording, errorMessage, lastFinalIndexRef,
                   accumulatedFinalRef, currentSessionIdRef, results, ended>>
    /\ UNCHANGED startVars
    /\ UNCHANGED startEvents
    /\ UNCHANGED proxyVars
    /\ UNCHANGED clientVars

(***************************************************************************)
(* The start button: startRecording, one action per stretch between two    *)
(* suspension points.  The button is disabled while isRecording, which is  *)
(* set by the start event, not by the request.                             *)
(***************************************************************************)
\* the reasons getUserMedia rejects with: access denied, no microphone
GetUserMediaFailures == {"NotAllowedError", "NotFoundError"}

\* startRecording up to the await of getUserMedia (web), or to the return
\* after the call of Voice.start, whose promise is pending (native)
StartRecording ==
    /\ ~isRecording
    /\ startPending < MaxPending
    /\ transcribedText' = <<>>
    /\ errorMessage' = NoMessage
    /\ startPending' = startPending + 1
    /\ startRequested' = IF platform = "web" THEN startRequested ELSE TRUE
    /\ UNCHANGED <<platform, isRecording, recordingHistory, lastFinalIndexRef,
                   accumulatedFinalRef, currentSessionIdRef, results, recognizing,
                   ended, micPermission>>
    /\ UNCHANGED startEvents
    /\ UNCHANGED proxyVars
    /\ UNCHANGED clientVars

\* getUserMedia resolves and recognition.start() is called; start() throws
\* an InvalidStateError when the recognizer was started already, and the
\* catch shows the permission message
GetUserMediaResolves ==
    /\ platform = "web"
    /\ startPending > 0
    /\ micPermission = "granted"
    /\ startPending' = startPending - 1
    /\ IF startRequested \/ recognizing
       THEN errorMessage' = PermissionMessage /\ UNCHANGED startRequested
       ELSE startRequested' = TRUE /\ UNCHANGED errorMessage
    /\ UNCHANGED <<platform, isRecording, transcribedText, recordingHistory,
                   lastFinalIndexRef, accumulatedFinalRef, currentSessionIdRef,
                   results, recognizing, ended, micPermission>>
    /\ UNCHANGED startEvents
    /\ UNCHANGED proxyVars
    /\ UNCHANGED clientVars

\* getUserMedia rejects: the catch shows the permission message
GetUserMediaRejects(reason) ==
    /\ platform = "web"
    /\ startPending > 0
    /\ reason = "NotAllowedError" <=> micPermission = "denied"
    /\ startPending' = startPending - 1
    /\ errorMessage' = PermissionMessage
    /\ UNCHANGED <<platform, isRecording, transcribedText, recordingHistory,
                   lastFinalIndexRef, accumulatedFinalRef, currentSessionIdRef,
                   results, recognizing, ended, micPermission, startRequested>>
    /\ UNCHANGED startEvents
    /\ UNCHANGED proxyVars
    /\ UNCHANGED clientVars

\* the promise of Voice.start resolves
VoiceStartResolves ==
    /\ platform = "native"
    /\ startPending > 0
    /\ startPending' = startPending - 1
    /\ UNCHANGED <<platform, isRecording, transcribedText, errorMessage,
                   recordingHistory, lastFinalIndexRef, accumulatedFinalRef,
                   currentSessionIdRef, results, recognizing, ended,
                   micPermission, startRequested>>
    /\ UNCHANGED startEvents
    /\ UNCHANGED proxyVars
    /\ UNCHANGED clientVars

\* the promise of Voice.start rejects: the catch shows the start error
VoiceStartRejects(message) ==
    /\ platform = "native"
    /\ startPending > 0
    /\ startPending' = startPending - 1
    /\ errorMessage' = StartError(message)
    /\ UNCHANGED <<platform, isRecording, transcribedText, recordingHistory,
                   lastFinalIndexRef, accumulatedFinalRef, currentSessionIdRef,
                   results, recognizing, ended, micPermission, startRequested>>
    /\ UNCHANGED startEvents
    /\ UNCHANGED proxyVars
    /\ UNCHANGED clientVars

(***************************************************************************)
(* Generation proxy: POST /api/generate.                                   *)
(*                                                                         *)
(* A value of the JSON request body is a record [t, v]: t is its type      *)
(* ("undefined" for a missing field), v its characters.                    *)
(***************************************************************************)
Undefined == [t |-> "undefined", v |-> <<>>]
Str(chars) == [t |-> "string", v |-> chars]
NumberValue == [t |-> "number", v |-> <<"4", "2">>]
\* an object that has no conversion to a string, such as {"toString": 0}
Unconvertible == [t |-> "object", v |-> <<>>]

TextChars == {"a", SPACE}

RECURSIVE StringsUpTo(_)
StringsUpTo(n) ==
    IF n = 0 THEN {<<>>}
    ELSE LET shorter == StringsUpTo(n - 1)
         IN shorter \cup { Append(t, c) : t \in { u \in shorter : Len(u) = n - 1 },
                                          c \in TextChars }

\* the values of the body's text field
BodyTexts == {Undefined, NumberValue} \cup { Str(t) : t \in StringsUpTo(MaxTextLen) }

\* the values of the body's documentType field: missing, cleared, typed,
\* not a string
BodyDocumentTypes == {Undefined, Str(<<>>), Str(<<"m", "e", "m", "o">>), Unconvertible}

\* the default document type (the Korean word for "report")
DefaultDocumentType == <<"b", "o", "g", "o", "s", "e", "o">>

\* the values process.env.GEMINI_MODEL can have; "" is unset or empty
EnvModels == {"", "gemini-1.5-flash", "gemini-2.0-pro"}

\* what response.text() can return
Contents == {"doc1", "doc2"}

\* what a candidate's call can throw: an Error with a message, an Error (or
\* any other truthy value) without one, a falsy value (null, undefined)
KindError == "Error"
KindNull == "null"
NullValue == [kind |-> KindNull, message |-> ""]
FailureValues ==
    { [kind |-> KindError, message |-> "quota exceeded"],
      [kind |-> KindError, message |-> ""],
      NullValue }

ValidationMessage == "text of 3 characters or more is required"
GenerationFailed == "document generation failed"
UnknownError == "unknown error"
\* the message of the TypeError of a failed conversion to a string
ConversionMessage == "Cannot convert object to primitive value"

HttpOk == 200
HttpBadRequest == 400
HttpServerError == 500
MinTextLength == 3

\* const { text, documentType = 'bogoseo' } = req.body || {}
DocumentTypeOf(field) ==
    IF field.t = "undefined" THEN Str(DefaultDocumentType) ELSE field

\* !text: undefined, the empty string (a number 42 is truthy)
Falsy(value) ==
    \/ value.t = "undefined"
    \/ value.t = "string" /\ value.v = <<>>

\* a variant that measures the text untrimmed
InvalidUntrimmed(text) ==
    \/ Falsy(text)
    \/ text.t # "string"
    \/ Len(text.v) < MinTextLength

\* !text || typeof text !== 'string' || text.trim().length < 3
Invalid(text) ==
    \/ Falsy(text)
    \/ text.t # "string"
    \/ Len(Trim(text.v)) < MinTextLength

\* the template literal converts documentType to a string, and that throws
\* a TypeError for a value without a conversion
PromptThrows(documentType) == documentType.t = "object"

\* the template literal of the prompt
BuildPrompt(text, documentType) ==
    <<"[write a Korean document in the form of: ">> \o documentType.v
        \o <<"; from what the user said: ">> \o text.v
        \o <<"; requirements: title, summary, body; deduplicate; condense; fix spelling]">>

\* [process.env.GEMINI_MODEL || 'gemini-2.5-flash', 'gemini-1.5-flash']
Candidates(env) ==
    <<IF env # "" THEN env ELSE "gemini-2.5-flash", "gemini-1.5-flash">>

\* throw lastError || new Error(...)
Thrown(lastError) ==
    IF lastError.kind # KindNull THEN lastError
    ELSE [kind |-> KindError, message |-> GenerationFailed]

\* error?.message || '...'
MessageOf(caught) ==
    IF caught.message # "" THEN caught.message ELSE UnknownError

\* model.generateContent(prompt), not yet settled
Call(modelName, prompt) ==
    [model |-> modelName, prompt |-> prompt, outcome |-> "pending",
     content |-> "", error |-> NullValue]

Requests == 1..MaxRequests

IdleHandler ==
    [pc |-> "idle", body |-> [text |-> Undefined, documentType |-> Undefined],
     text |-> Undefined, documentType |-> Undefined,
     prompt |-> <<>>, k |-> 0, lastError |-> NullValue,
     calls |-> <<>>, responses |-> <<>>]

Respond(h, status, body) ==
    [h EXCEPT !.pc = "done",
              !.responses = Append(@, [status |-> status, body |-> body])]

\* the handler from the request to the first await, or to the 400 response,
\* or to the outer catch when building the prompt throws; the requests are
\* numbered in their order of arrival
Receive(r, text, field) ==
    /\ handler[r].pc = "idle"
    /\ \A q \in Requests : q < r => handler[q].pc # "idle"
    /\ LET documentType == DocumentTypeOf(field)
           h == [handler[r] EXCEPT !.body = [text |-> text, documentType |-> field],
                                   !.text = text,
                                   !.documentType = documentType]
       IN handler' = [handler EXCEPT ![r] =
            IF Invalid(text)
            THEN Respond(h, HttpBadRequest, [error |-> ValidationMessage])
            ELSE IF PromptThrows(documentType)
            THEN Respond(h, HttpServerError,
                         [error |-> MessageOf([kind |-> KindError,
                                               message |-> ConversionMessage])])
            ELSE LET prompt == BuildPrompt(text, documentType)
                 IN [h EXCEPT !.pc = "awaiting",
                              !.prompt = prompt,
                              !.k = 1,
                              !.calls = <<Call(Candidates(envModel)[1], prompt)>>]]
    /\ UNCHANGED envModel
    /\ UNCHANGED recVars
    /\ UNCHANGED clientVars

\* a variant without the return: the loop goes on to the next candidate
ModelSucceedsGoesOn(r, generatedText) ==
    /\ handler[r].pc = "awaiting"
    /\ LET h == handler[r]
           candidates == Candidates(envModel)
           settled == [h EXCEPT !.calls[h.k].outcome = "ok",
                                !.calls[h.k].content = generatedText]
       IN handler' = [handler EXCEPT ![r] =
            IF h.k < Len(candidates)
            THEN [settled EXCEPT !.k = h.k + 1,
                                 !.calls = Append(@, Call(candidates[h.k + 1], h.prompt))]
            ELSE Respond(settled, HttpOk, [content |-> generatedText])]
    /\ UNCHANGED envModel
    /\ UNCHANGED recVars
    /\ UNCHANGED clientVars

\* a variant that keeps res in a variable of the module: the response goes
\* to the request received last
ModelSucceedsAnswersLatest(r, generatedText) ==
    /\ handler[r].pc = "awaiting"
    /\ LET h == handler[r]
           latest == CHOOSE q \in DOMAIN handler :
                        /\ handler[q].pc # "idle"
                        /\ \A p \in DOMAIN handler : handler[p].pc # "idle" => p <= q
           settled == [handler EXCEPT ![r].calls[h.k].outcome = "ok",
                                      ![r].calls[h.k].content = generatedText,
                                      ![r].pc = "done"]
       IN handler' = [settled EXCEPT ![latest] =
            Respond(@, HttpOk, [content |-> generatedText])]
    /\ UNCHANGED envModel
    /\ UNCHANGED recVars
    /\ UNCHANGED clientVars

\* the awaited call returns generated text: res.json({ content })
ModelSucceeds(r, generatedText) ==
    /\ handler[r].pc = "awaiting"
    /\ LET h == handler[r]
           settled == [h EXCEPT !.calls[h.k].outcome = "ok",
                                !.calls[h.k].content = generatedText]
       IN handler' = [handler EXCEPT ![r] =
            Respond(settled, HttpOk, [content |-> generatedText])]
    /\ UNCHANGED envModel
    /\ UNCHANGED recVars
    /\ UNCHANGED clientVars

\* a variant that keeps the first failure (lastError = lastError || err)
ModelFailsKeepsFirst(r, err) ==
    /\ handler[r].pc = "awaiting"
    /\ LET h == handler[r]
           candidates == Candidates(envModel)
           failed == [h EXCEPT !.calls[h.k].outcome = "failed",
                               !.calls[h.k].error = err,
                               !.lastError = IF h.k = 1 THEN err ELSE @]
       IN handler' = [handler EXCEPT ![r] =
            IF h.k < Len(candidates)
            THEN [failed EXCEPT !.k = h.k + 1,
                                !.calls = Append(@, Call(candidates[h.k + 1], h.prompt))]
            ELSE Respond(failed, HttpServerError,
                         [error |-> MessageOf(Thrown(failed.lastError))])]
    /\ UNCHANGED envModel
    /\ UNCHANGED recVars
    /\ UNCHANGED clientVars

\* a variant that tells the next candidate of the failure in its prompt
ModelFailsAmendsPrompt(r, err) ==
    /\ handler[r].pc = "awaiting"
    /\ LET h == handler[r]
           candidates == Candidates(envModel)
           failed == [h EXCEPT !.calls[h.k].outcome = "failed",
                               !.calls[h.k].error = err,
                               !.lastError = err]
       IN handler' = [handler EXCEPT ![r] =
            IF h.k < Len(candidates)
            THEN [failed EXCEPT !.k = h.k + 1,
                                !.calls = Append(@, Call(candidates[h.k + 1],
                                    h.prompt \o <<"; the model before failed">>))]
            ELSE Respond(failed, HttpServerError,
                         [error |-> MessageOf(Thrown(failed.lastError))])]
    /\ UNCHANGED envModel
    /\ UNCHANGED recVars
    /\ UNCHANGED clientVars

\* the awaited call throws: the catch of the loop, then the next candidate
\* or, after the last one, the throw and the outer catch
ModelFails(r, err) ==
    /\ handler[r].pc = "awaiting"
    /\ LET h == handler[r]
           candidates == Candidates(envModel)
           failed == [h EXCEPT !.calls[h.k].outcome = "failed",
                               !.calls[h.k].error = err,
                               !.lastError = err]
       IN handler' = [handler EXCEPT ![r] =
            IF h.k < Len(candidates)
            THEN [failed EXCEPT !.k = h.k + 1,
                                !.calls = Append(@, Call(candidates[h.k + 1], h.prompt))]
            ELSE Respond(failed, HttpServerError,
                         [error |-> MessageOf(Thrown(failed.lastError))])]
    /\ UNCHANGED envModel
    /\ UNCHANGED recVars
    /\ UNCHANGED clientVars

\* the proxy alone: the recording component stays as mounted
ProxyInit ==
    /\ platform = "web"
    /\ isRecording = FALSE
    /\ transcribedText = <<>>
    /\ errorMessage = NoMessage
    /\ recordingHistory = <<>>
    /\ lastFinalIndexRef = 0
    /\ accumulatedFinalRef = <<>>
    /\ currentSessionIdRef = NoSession
    /\ results = <<>>
    /\ recognizing = FALSE
    /\ ended = {}
    /\ startEvents = 0
    /\ micPermission = "granted"
    /\ startPending = 0
    /\ startRequested = FALSE
    /\ envModel \in EnvModels
    /\ handler = [r \in Requests |-> IdleHandler]
    /\ generatedDocument = ""
    /\ editedDocument = ""
    /\ phoneNumber = ""
    /\ isGenerating = FALSE
    /\ error = <<>>
    /\ selectedRecording = 0
    /\ generations = <<>>
    /\ sms = <<>>

ProxyNext ==
    \/ \E r \in { q \in Requests : handler[q].pc = "idle" } :
          \E text \in BodyTexts, field \in BodyDocumentTypes : Receive(r, text, field)
    \/ \E r \in { q \in Requests : handler[q].pc = "awaiting" } :
          \E generatedText \in Contents : ModelSucceeds(r, generatedText)
    \/ \E r \in { q \in Requests : handler[q].pc = "awaiting" } :
          \E err \in FailureValues : ModelFails(r, err)

ProxySpec == ProxyInit /\ [][ProxyNext]_vars

\* the proxy with one request more in flight, each of few bodies: without a
\* text, or with the longest text, and with or without a document type
ConcurrentRequests == 1..(MaxRequests + 1)
ConcurrentTexts == {Undefined, Str([i \in 1..MaxTextLen |-> "a"])}
ConcurrentDocumentTypes == {Undefined, Str(<<"m", "e", "m", "o">>)}

ConcurrentInit ==
    /\ platform = "web"
    /\ isRecording = FALSE
    /\ transcribedText = <<>>
    /\ errorMessage = NoMessage
    /\ recordingHistory = <<>>
    /\ lastFinalIndexRef = 0
    /\ accumulatedFinalRef = <<>>
    /\ currentSessionIdRef = NoSession
    /\ results = <<>>
    /\ recognizing = FALSE
    /\ ended = {}
    /\ startEvents = 0
    /\ micPermission = "granted"
    /\ startPending = 0
    /\ startRequested = FALSE
    /\ envModel \in EnvModels
    /\ handler = [r \in ConcurrentRequests |-> IdleHandler]
    /\ generatedDocument = ""
    /\ editedDocument = ""
    /\ phoneNumber = ""
    /\ isGenerating = FALSE
    /\ error = <<>>
    /\ selectedRecording = 0
    /\ generations = <<>>
    /\ sms = <<>>

ConcurrentNext ==
    \/ \E r \in { q \in ConcurrentRequests : handler[q].pc = "idle" } :
          \E text \in ConcurrentTexts, field \in ConcurrentDocumentTypes :
              Receive(r, text, field)
    \/ \E r \in { q \in ConcurrentRequests : handler[q].pc = "awaiting" } :
          \E generatedText \in Contents : ModelSucceeds(r, generatedText)
    \/ \E r \in { q \in ConcurrentRequests : handler[q].pc = "awaiting" } :
          \E err \in FailureValues : ModelFails(r, err)
ConcurrentSpec == ConcurrentInit /\ [][ConcurrentNext]_vars

(***************************************************************************)
(* Client: DocumentGeneratorComponent.  Its props, transcribedText and     *)
(* recordingHistory, are the state of the recording component.  A document *)
(* and a phone number are strings the code only tests for emptiness and    *)
(* passes on.  The proxy is the environment here: a fetch ends with a      *)
(* response or throws.                                                     *)
(***************************************************************************)
NoRecording == 0
NoError == <<>>

\* what the user types into the phone number and the document fields
PhoneNumbers == {"", "010"}
TypedDocuments == {"", "edited"}
\* data.content of an ok response (missing content is read as '')
ResponseContents == {"", "doc1", "doc2"}
\* error.message in the catch of generateDocument: data.error of a response
\* that is not ok, or the message of a fetch that threw
ResponseErrors == {"quota exceeded"}
\* result of SMS.sendSMSAsync
SmsResults == {"sent", "cancelled"}
\* error.message in the catch of sendSMS
SmsFailures == {"no sim"}

NoTextMessage == <<"there is no speech text; record first">>
GenerationError(msg) == <<"error while generating the document: ", msg>>
NoDocumentMessage == <<"there is no document to send">>
NoPhoneMessage == <<"enter a phone number">>
SmsUnavailableMessage == <<"SMS is not available on this device">>
SmsError(message) == <<"error while sending the SMS: ", message>>

\* generateDocument(text) up to the await of fetch
GenerateDocument(text) ==
    IF text = <<>>
    THEN /\ error' = NoTextMessage
         /\ UNCHANGED <<isGenerating, generations>>
    ELSE /\ isGenerating' = TRUE
         /\ error' = NoError
         /\ generations' = Append(generations,
                [text |-> text, pc |-> "fetching", outcome |-> "pending", content |-> ""])

\* the generate button: generateDocument() with the default text; disabled
\* while isGenerating or when there is neither a transcript nor a selection
PressGenerate ==
    /\ ~isGenerating
    /\ transcribedText # <<>> \/ selectedRecording # NoRecording
    /\ Len(generations) < MaxGenerations
    /\ GenerateDocument(transcribedText)
    /\ UNCHANGED <<generatedDocument, editedDocument, phoneNumber, selectedRecording, sms>>
    /\ UNCHANGED recVars
    /\ UNCHANGED proxyVars

\* a recording of the history is pressed
SelectRecordingForDocument(k) ==
    /\ k \in DOMAIN recordingHistory
    /\ Len(generations) < MaxGenerations
    /\ selectedRecording' = recordingHistory[k].id
    /\ GenerateDocument(recordingHistory[k].text)
    /\ UNCHANGED <<generatedDocument, editedDocument, phoneNumber, sms>>
    /\ UNCHANGED recVars
    /\ UNCHANGED proxyVars

\* the response of request g is ok: from the await to the end of finally
GenerationSucceeds(g, content) ==
    /\ g \in DOMAIN generations
    /\ generations[g].pc = "fetching"
    /\ generatedDocument' = content
    /\ editedDocument' = content
    /\ isGenerating' = FALSE
    /\ generations' = [generations EXCEPT ![g].pc = "done", ![g].outcome = "ok",
                                          ![g].content = content]
    /\ UNCHANGED <<phoneNumber, error, selectedRecording, sms>>
    /\ UNCHANGED recVars
    /\ UNCHANGED proxyVars

\* the response of request g is not ok, or the fetch threw: catch, finally
GenerationFails(g, msg) ==
    /\ g \in DOMAIN generations
    /\ generations[g].pc = "fetching"
    /\ error' = GenerationError(msg)
    /\ generatedDocument' = ""
    /\ editedDocument' = ""
    /\ isGenerating' = FALSE
    /\ generations' = [generations EXCEPT ![g].pc = "done", ![g].outcome = "failed"]
    /\ UNCHANGED <<phoneNumber, selectedRecording, sms>>
    /\ UNCHANGED recVars
    /\ UNCHANGED proxyVars

\* the user edits the document field: onChangeText={setEditedDocument}
EditDocument(typed) ==
    /\ editedDocument' = typed
    /\ UNCHANGED <<generatedDocument, phoneNumber, isGenerating, error,
                   selectedRecording, generations, sms>>
    /\ UNCHANGED recVars
    /\ UNCHANGED proxyVars

\* the user edits the phone number field: onChangeText={setPhoneNumber}
EnterPhoneNumber(typed) ==
    /\ phoneNumber' = typed
    /\ UNCHANGED <<generatedDocument, editedDocument, isGenerating, error,
                   selectedRecording, generations, sms>>
    /\ UNCHANGED recVars
    /\ UNCHANGED proxyVars

\* a sendSMS call that has returned
SmsDone(outcome) ==
    [pc |-> "done", phone |-> phoneNumber, document |-> editedDocument,
     outcome |-> outcome]

\* sendSMS up to the await of SMS.isAvailableAsync, or to an early return
SendSMS ==
    IF editedDocument = ""
    THEN /\ error' = NoDocumentMessage
         /\ sms' = Append(sms, SmsDone("no document"))
    ELSE IF phoneNumber = ""
    THEN /\ error' = NoPhoneMessage
         /\ sms' = Append(sms, SmsDone("no phone number"))
    ELSE /\ error' = NoError
         /\ sms' = Append(sms, [pc |-> "checking", phone |-> phoneNumber,
                                document |-> editedDocument, outcome |-> "pending"])

\* the SMS button: disabled without a document or without a phone number
PressSendSMS ==
    /\ editedDocument # "" /\ phoneNumber # ""
    /\ Len(sms) < MaxSms
    /\ SendSMS
    /\ UNCHANGED <<generatedDocument, editedDocument, phoneNumber, isGenerating,
                   selectedRecording, generations>>
    /\ UNCHANGED recVars
    /\ UNCHANGED proxyVars

\* SMS.isAvailableAsync resolves: the send is awaited, or the message that
\* SMS is unavailable is shown
SmsAvailability(i, isAvailable) ==
    /\ i \in DOMAIN sms
    /\ sms[i].pc = "checking"
    /\ IF isAvailable
       THEN /\ sms' = [sms EXCEPT ![i].pc = "sending"]
            /\ UNCHANGED error
       ELSE /\ sms' = [sms EXCEPT ![i].pc = "done", ![i].outcome = "unavailable"]
            /\ error' = SmsUnavailableMessage
    /\ UNCHANGED <<generatedDocument, editedDocument, phoneNumber, isGenerating,
                   selectedRecording, generations>>
    /\ UNCHANGED recVars
    /\ UNCHANGED proxyVars

\* SMS.sendSMSAsync resolves: the result is logged only
SmsSendResolves(i, result) ==
    /\ i \in DOMAIN sms
    /\ sms[i].pc = "sending"
    /\ sms' = [sms EXCEPT ![i].pc = "done", ![i].outcome = result]
    /\ UNCHANGED <<generatedDocument, editedDocument, phoneNumber, isGenerating,
                   error, selectedRecording, generations>>
    /\ UNCHANGED recVars
    /\ UNCHANGED proxyVars

\* a variant with the catch of generateDocument: it clears the documents
SmsThrowsClearsDocuments(i, message) ==
    /\ i \in DOMAIN sms
    /\ sms[i].pc \in {"checking", "sending"}
    /\ sms' = [sms EXCEPT ![i].pc = "done", ![i].outcome = "threw"]
    /\ error' = SmsError(message)
    /\ generatedDocument' = ""
    /\ editedDocument' = ""
    /\ UNCHANGED <<phoneNumber, isGenerating, selectedRecording, generations>>
    /\ UNCHANGED recVars
    /\ UNCHANGED proxyVars

\* one of the two awaited calls throws: the catch shows the error
SmsThrows(i, message) ==
    /\ i \in DOMAIN sms
    /\ sms[i].pc \in {"checking", "sending"}
    /\ sms' = [sms EXCEPT ![i].pc = "done", ![i].outcome = "threw"]
    /\ error' = SmsError(message)
    /\ UNCHANGED <<generatedDocument, editedDocument, phoneNumber, isGenerating,
                   selectedRecording, generations>>
    /\ UNCHANGED recVars
    /\ UNCHANGED proxyVars

\* the client alone, mounted over a recording component that has recorded
\* one session; the proxy is not modelled
ClientInit ==
    /\ platform = "web"
    /\ isRecording = FALSE
    /\ transcribedText = <<"a">>
    /\ errorMessage = NoMessage
    /\ recordingHistory = <<[id |-> 1, text |-> <<"a">>, timestamp |-> 1]>>
    /\ lastFinalIndexRef = 1
    /\ accumulatedFinalRef = <<"a">>
    /\ currentSessionIdRef = NoSession
    /\ results = <<[transcript |-> <<"a">>, isFinal |-> TRUE]>>
    /\ recognizing = FALSE
    /\ ended = {1}
    /\ startEvents = 1
    /\ micPermission = "granted"
    /\ startPending = 0
    /\ startRequested = FALSE
    /\ envModel = ""
    /\ handler = <<>>
    /\ generatedDocument = ""
    /\ editedDocument = ""
    /\ phoneNumber = ""
    /\ isGenerating = FALSE
    /\ error = NoError
    /\ selectedRecording = NoRecording
    /\ generations = <<>>
    /\ sms = <<>>

ClientNext ==
    \/ PressGenerate
    \/ \E k \in DOMAIN recordingHistory : SelectRecordingForDocument(k)
    \/ \E g \in DOMAIN generations, content \in ResponseContents :
          GenerationSucceeds(g, content)
    \/ \E g \in DOMAIN generations, msg \in ResponseErrors : GenerationFails(g, msg)
    \/ \E typed \in TypedDocuments : EditDocument(typed)
    \/ \E typed \in PhoneNumbers : EnterPhoneNumber(typed)
    \/ PressSendSMS
    \/ \E i \in DOMAIN sms, isAvailable \in BOOLEAN : SmsAvailability(i, isAvailable)
    \/ \E i \in DOMAIN sms, result \in SmsResults : SmsSendResolves(i, result)
    \/ \E i \in DOMAIN sms, message \in SmsFailures : SmsThrows(i, message)
ClientSpec == ClientInit /\ [][ClientNext]_vars

\* the recording component alone
Next ==
    \/ \E newId \in ClockReadings(recordingHistory) : WebOnStart(newId)
    \/ WebOnEnd
    \/ \E code \in ErrorCodes : WebOnError(code)
    \/ \E e \in NextBatches(results) : WebOnResult(e)
    \/ \E newId \in ClockReadings(recordingHistory) : NativeOnSpeechStart(newId)
    \/ NativeOnSpeechEnd
    \/ \E code \in ErrorCodes : NativeOnSpeechError(code)
    \/ \E value \in NativeValues : NativeOnSpeechPartialResults(value)
    \/ \E value \in NativeValues : NativeOnSpeechResults(value)
Spec == Init /\ [][Next]_vars

\* the result lists of the runs with the start button: one result shorter
ShortBatches(r) == { e \in NextBatches(r) : Len(e) < MaxResults }

\* the recording component with its start button.  The recognizer reports a
\* start only after it was started (and, on the native backend, only with
\* access to the microphone), an end only after that, and native results
\* only until the end.
StartNext ==
    \/ StartRecording
    \/ GetUserMediaResolves
    \/ \E reason \in GetUserMediaFailures : GetUserMediaRejects(reason)
    \/ VoiceStartResolves
    \/ \E message \in StartFailures : VoiceStartRejects(message)
    \/ startRequested /\ \E newId \in ClockReadings(recordingHistory) : WebOnStart(newId)
    \/ (recognizing \/ startRequested) /\ WebOnEnd
    \/ \E code \in ErrorCodes : WebOnError(code)
    \/ \E e \in ShortBatches(results) : WebOnResult(e)
    \/ (micPermission = "granted" /\ startRequested)
          /\ \E newId \in ClockReadings(recordingHistory) : NativeOnSpeechStart(newId)
    \/ startRequested /\ NativeOnSpeechEnd
    \/ \E code \in ErrorCodes : NativeOnSpeechError(code)
    \/ startRequested /\ \E value \in NativeValues : NativeOnSpeechPartialResults(value)
    \/ startRequested /\ \E value \in NativeValues : NativeOnSpeechResults(value)
StartSpec == Init /\ [][StartNext]_vars

(***************************************************************************)
(* Properties of the transcript accumulator (checked under Spec).          *)
(***************************************************************************)
\* the non-empty texts of the results of e that are final, in index order,
\* joined by single spaces
RECURSIVE JoinedFinals(_)
JoinedFinals(e) ==
    IF e = <<>> THEN <<>>
    ELSE LET rest == JoinedFinals(SubSeq(e, 1, Len(e) - 1))
             last == e[Len(e)]
         IN IF last.isFinal /\ last.transcript # <<>>
            THEN (IF rest = <<>> THEN last.transcript
                  ELSE rest \o <<SPACE>> \o last.transcript)
            ELSE rest

\* the words of a text in their order, the spaces between them left out
WordSeq(text) == SelectSeq(text, LAMBDA c : c # SPACE)

\* the words of a text
WordsOf(text) == { text[i] : i \in DOMAIN text } \ {SPACE}

\* the words of the results of e that are final
FinalWordsOf(e) ==
    UNION { WordsOf(e[i].transcript) : i \in { j \in DOMAIN e : e[j].isFinal } }

\* a start-of-recording event: the only event that adds a history entry
StartEvent == Len(recordingHistory') = Len(recordingHistory) + 1

\* C1: in the browser backend, after every result event finalizedText is
\* the single-space join, in index order, of the texts of all the results
\* marked final so far, each exactly once, also for a result that turns
\* final after a result at a higher index was consumed.  (Stated on the
\* words: an empty text adds nothing, and spacing is not compared.)
C1_FinalizedTextJoinsAllFinals ==
    WordSeq(accumulatedFinalRef) = WordSeq(JoinedFinals(results))

\* C5: every start-of-recording event resets the result cursor to 0,
\* finalizedText to empty and the live transcript to empty, and opens an
\* entry with empty text; the finalized text and the newest entry of the
\* browser backend then hold words of the current session's results only.
C5_StartResets ==
    [][/\ StartEvent =>
            /\ lastFinalIndexRef' = 0
            /\ accumulatedFinalRef' = <<>>
            /\ transcribedText' = <<>>
            /\ recordingHistory'[Len(recordingHistory')].text = <<>>
            /\ currentSessionIdRef' = recordingHistory'[Len(recordingHistory')].id
       /\ WordsOf(accumulatedFinalRef') \subseteq FinalWordsOf(results')
       /\ (platform = "web" /\ recordingHistory' # <<>>) =>
            WordsOf(recordingHistory'[Len(recordingHistory')].text)
                \subseteq UNION { WordsOf(results'[i].transcript) : i \in DOMAIN results' }
      ]_vars

\* a second session has started after a session that had text, and nothing
\* of it is left
C5_Witness ==
    /\ platform = "web"
    /\ Len(recordingHistory) = 2
    /\ Len(recordingHistory[1].text) = 3
    /\ recordingHistory[2].text = <<>>
    /\ currentSessionIdRef = recordingHistory[2].id
    /\ results = <<>>
    /\ accumulatedFinalRef = <<>>
    /\ lastFinalIndexRef = 0

\* C6: in the browser backend, after every result event the live transcript
\* is finalizedText followed by at most one interim fragment, the text of
\* the trailing result when that result is not final (the whole trimmed of
\* leading and trailing whitespace); every word of finalizedText is the text
\* of a result that is final in that event, and no word is in it twice.
\* (A step of a running browser session that leaves a non-empty result list
\* is a result event, or an error event after one, which changes none of
\* these.)
C6_DisplayIsFinalsThenInterim ==
    [][(platform = "web" /\ recognizing /\ recognizing' /\ results' # <<>>) =>
          LET e == results'
              latest == e[Len(e)]
              interim == IF latest.isFinal THEN <<>> ELSE latest.transcript
              acc == accumulatedFinalRef'
          IN /\ transcribedText' =
                  Trim(IF interim = <<>> THEN acc
                       ELSE IF acc = <<>> THEN interim
                       ELSE acc \o <<SPACE>> \o interim)
             /\ WordsOf(acc) \subseteq FinalWordsOf(e)
             /\ \A i, j \in DOMAIN acc : (i # j /\ acc[i] = acc[j]) => acc[i] = SPACE
      ]_vars

\* the transcript shows a finalized word and, after it, the interim word
C6_Witness ==
    /\ platform = "web"
    /\ recognizing
    /\ Len(results) = 2
    /\ results[1].isFinal /\ ~results[2].isFinal
    /\ accumulatedFinalRef = <<"a">>
    /\ transcribedText = <<"a", SPACE, "b">>

\* C7: the result cursor goes down, and finalizedText stops being an
\* extension of its previous value, only at a start-of-recording event, and
\* then to 0 and to the empty text.
C7_CursorAndTextOnlyGrow ==
    [][(\/ lastFinalIndexRef' < lastFinalIndexRef
        \/ ~IsPrefix(accumulatedFinalRef, accumulatedFinalRef'))
         => (StartEvent /\ lastFinalIndexRef' = 0 /\ accumulatedFinalRef' = <<>>)
      ]_vars

\* two results were consumed in one session, the second appended to the first
C7_Witness ==
    /\ platform = "web"
    /\ recognizing
    /\ lastFinalIndexRef = 2
    /\ accumulatedFinalRef = <<"a", SPACE, "b">>

\* C8: once the end event of a session was delivered, the stored text of
\* its history entry never changes again.
C8_EndedEntryNeverChanges ==
    [][\A k \in ended : recordingHistory'[k].text = recordingHistory[k].text]_vars

\* C9: the ids of the history entries are pairwise distinct and strictly
\* increasing in creation order.
C9_IdsStrictlyIncrease ==
    \A i, j \in DOMAIN recordingHistory :
        i < j => recordingHistory[i].id < recordingHistory[j].id

\* C13: a recognizer error event only sets the error message: finalizedText,
\* the result cursor, the live transcript, the history, the active-session
\* marker and the recording flag are as before it; and once an error was
\* reported, the events of the same session still extend the finalized text
\* (on the native backend, the transcript) that was there before them.
\* (Under Spec the error events are the only steps that change the
\* message.)
C13_ErrorOnlySetsMessage ==
    [][/\ errorMessage' # errorMessage =>
            /\ errorMessage' \in { RecognitionError(code) : code \in ErrorCodes }
            /\ accumulatedFinalRef' = accumulatedFinalRef
            /\ lastFinalIndexRef' = lastFinalIndexRef
            /\ transcribedText' = transcribedText
            /\ recordingHistory' = recordingHistory
            /\ currentSessionIdRef' = currentSessionIdRef
            /\ isRecording' = isRecording
       /\ (errorMessage # NoMessage /\ ~StartEvent) =>
            /\ IsPrefix(accumulatedFinalRef, accumulatedFinalRef')
            /\ lastFinalIndexRef' >= lastFinalIndexRef
            /\ platform = "native" => IsPrefix(transcribedText, transcribedText')
      ]_vars

\* an error was reported in a running browser session that finalized two
\* results and is still recording
C13_Witness ==
    /\ platform = "web"
    /\ errorMessage = RecognitionError("no-speech")
    /\ isRecording /\ recognizing
    /\ currentSessionIdRef # NoSession
    /\ lastFinalIndexRef = 2
    /\ accumulatedFinalRef = <<"a", SPACE, "b">>
    /\ recordingHistory[Len(recordingHistory)].text = <<"a", SPACE, "b">>

(***************************************************************************)
(* Properties of the start button (checked under StartSpec).               *)
(***************************************************************************)
\* C14: when access to the microphone is denied, a start request does not
\* start recording: the recognizer is not started, no entry is added to the
\* history, the recording flag stays false and no session becomes active;
\* the request ends with the permission message shown; and the permission
\* message is shown in this case only.
C14_DeniedStartShowsPermissionMessage ==
    [][/\ micPermission = "denied" =>
            /\ ~startRequested' /\ ~recognizing'
            /\ recordingHistory' = recordingHistory
            /\ ~isRecording'
            /\ currentSessionIdRef' = NoSession
       /\ (micPermission = "denied" /\ startPending' < startPending) =>
            errorMessage' = PermissionMessage
       /\ errorMessage' = PermissionMessage => micPermission = "denied"
      ]_vars

\* a result event under Spec: a step, other than a start event, that
\* delivers a result list or changes the transcript
ResultEvent ==
    /\ ~StartEvent
    /\ results' # results \/ transcribedText' # transcribedText

\* C19: while a session is active, after every result event the text of the
\* active session's entry (the newest of the history) is the live
\* transcript, and the text of every other entry is as before the event;
\* on both backends.
C19_ActiveEntryIsTranscript ==
    [][(ResultEvent /\ currentSessionIdRef # NoSession) =>
          LET n == Len(recordingHistory)
          IN /\ recordingHistory'[n].text = transcribedText'
             /\ \A k \in 1..(n - 1) :
                   recordingHistory'[k].text = recordingHistory[k].text
      ]_vars

\* C20: on the native backend every partial-result event and every
\* final-result event with a non-empty value appends the value's texts,
\* joined by spaces, to the transcript: the transcript after the event is
\* the transcript before it, one space if that was not empty, and the
\* joined texts; so the transcript changes by growing at its end only,
\* except at a start-of-recording event.
C20_NativeAppendsEveryResult ==
    [][platform = "native" =>
          /\ \A value \in NativeValues :
                (/\ Len(value) > 0
                 /\ \/ NativeOnSpeechPartialResults(value)
                    \/ NativeOnSpeechResults(value))
                => transcribedText' =
                      (IF transcribedText = <<>> THEN <<>>
                       ELSE transcribedText \o <<SPACE>>) \o JoinSpace(value)
          /\ ~StartEvent => IsPrefix(transcribedText, transcribedText')
      ]_vars

\* the same fragment came as a partial and as a final result of one
\* session: it is in the transcript and in the session's entry twice
C20_Witness ==
    /\ platform = "native"
    /\ currentSessionIdRef # NoSession
    /\ transcribedText = <<"a", SPACE, "a">>
    /\ recordingHistory[Len(recordingHistory)].text = <<"a", SPACE, "a">>

\* C17: the history is append-only in its entries: a start-of-recording
\* event appends exactly one entry, with empty text, at the end and leaves
\* the entries before it as they are; no other step (result, error, end,
\* start request, permission failure) adds, removes or reorders entries
\* (it keeps each entry's id and timestamp at its index); so the length of
\* the history is the number of start events delivered.
C17_HistoryAppendOnly ==
    [][/\ Len(recordingHistory') = startEvents'
       /\ \A k \in DOMAIN recordingHistory :
            /\ k \in DOMAIN recordingHistory'
            /\ recordingHistory'[k].id = recordingHistory[k].id
            /\ recordingHistory'[k].timestamp = recordingHistory[k].timestamp
       /\ startEvents' # startEvents =>
            /\ Len(recordingHistory') = Len(recordingHistory) + 1
            /\ recordingHistory'[Len(recordingHistory')].text = <<>>
            /\ SubSeq(recordingHistory', 1, Len(recordingHistory)) = recordingHistory
       /\ startEvents' = startEvents =>
            Len(recordingHistory') = Len(recordingHistory)
      ]_vars

\* two sessions were started from the button and both recorded text
C17_Witness ==
    /\ startEvents = 2
    /\ Len(recordingHistory) = 2
    /\ recordingHistory[1].text # <<>>
    /\ recordingHistory[2].text # <<>>
    /\ recordingHistory[1].id # recordingHistory[2].id

\* C21: the recognizer is started from Idle only: the start button is not
\* pressed, and start() is not called, while a session is listening or
\* while an earlier start request is pending (its permission check not
\* resolved, or its start event not delivered); and a start-of-recording
\* event does not arrive while the active-session marker is set.
C21_StartOnlyFromIdle ==
    [][/\ StartRecording =>
            /\ startPending = 0 /\ ~startRequested
            /\ ~recognizing /\ ~isRecording
            /\ currentSessionIdRef = NoSession
       /\ GetUserMediaResolves =>
            /\ startPending = 1 /\ ~startRequested
            /\ ~recognizing /\ ~isRecording
       /\ StartEvent => currentSessionIdRef = NoSession
      ]_vars

(***************************************************************************)
(* Properties of the generation proxy (checked under ProxySpec).           *)
(***************************************************************************)
\* the text of the request body is a string of trimmed length at least 3
ValidText(text) == text.t = "string" /\ Len(Trim(text.v)) >= 3

\* C2: the candidates are called in the declared order, candidate k only
\* after every candidate before it has failed; a candidate that succeeds is
\* the last one called, and the response is HTTP 200 with its content.
C2_FallbackInOrder ==
    \A r \in Requests :
        LET h == handler[r]
            candidates == Candidates(envModel)
        IN /\ Len(h.calls) <= Len(candidates)
           /\ \A i \in DOMAIN h.calls :
                /\ h.calls[i].model = candidates[i]
                /\ i < Len(h.calls) => h.calls[i].outcome = "failed"
                /\ h.calls[i].outcome = "ok" =>
                     /\ Len(h.responses) = 1
                     /\ h.responses[1].status = 200
                     /\ h.responses[1].body.content = h.calls[i].content
           /\ \A i \in DOMAIN h.responses :
                h.responses[i].status = 200 =>
                    h.calls # <<>> /\ h.calls[Len(h.calls)].outcome = "ok"

\* the first candidate failed, the second succeeded and its content was sent
C2_Witness ==
    \E r \in Requests :
        LET h == handler[r]
        IN /\ Len(h.calls) = 2
           /\ h.calls[1].outcome = "failed"
           /\ h.calls[2].outcome = "ok"
           /\ h.calls[2].content = "doc2"
           /\ Len(h.responses) = 1
           /\ h.responses[1].status = 200
           /\ h.responses[1].body.content = "doc2"

\* C3 as stated: when every candidate fails, the response is HTTP 500 with
\* the failure message of the last candidate attempted, for every failure
\* value a call can raise.
C3_LastFailureMessageAlways ==
    \A r \in Requests :
        LET h == handler[r]
        IN \A i \in DOMAIN h.responses :
              (h.responses[i].status = 500 /\ h.calls # <<>>) =>
                 h.responses[i].body.error = h.calls[Len(h.calls)].error.message

\* C3 amended: when every candidate fails, the response is HTTP 500; its
\* message is the failure message of the last candidate attempted when that
\* failure carries a non-empty message, the generic "document generation
\* failed" when the last failure is a falsy value (null, undefined), and
\* "unknown error" when it is a truthy value without a message.
C3_LastFailureMessage ==
    \A r \in Requests :
        LET h == handler[r]
            candidates == Candidates(envModel)
            allFailed == /\ Len(h.calls) = Len(candidates)
                         /\ \A i \in DOMAIN h.calls : h.calls[i].outcome = "failed"
        IN allFailed =>
             /\ Len(h.responses) = 1
             /\ h.responses[1].status = 500
             /\ LET last == h.calls[Len(h.calls)].error
                IN h.responses[1].body.error =
                     IF last.message # "" THEN last.message
                     ELSE IF last.kind = "null"
                          THEN "document generation failed"
                          ELSE "unknown error"

\* both candidates failed, the first without a message, and the response
\* carries the message of the second
C3_Witness ==
    \E r \in Requests :
        LET h == handler[r]
        IN /\ Len(h.calls) = 2
           /\ h.calls[1].outcome = "failed" /\ h.calls[1].error.message = ""
           /\ h.calls[2].outcome = "failed"
           /\ h.calls[2].error.message = "quota exceeded"
           /\ Len(h.responses) = 1
           /\ h.responses[1].status = 500
           /\ h.responses[1].body.error = "quota exceeded"

\* C4: a request whose text is absent, not a string or of trimmed length
\* below 3 is answered HTTP 400 with an error body and no candidate is
\* called for it; a request whose text is a string of trimmed length 3 or
\* more is never answered 400.
C4_ValidationBeforeFallback ==
    \A r \in Requests :
        LET h == handler[r]
        IN h.pc # "idle" =>
             IF ValidText(h.body.text)
             THEN \A i \in DOMAIN h.responses : h.responses[i].status # 400
             ELSE /\ h.calls = <<>>
                  /\ Len(h.responses) = 1
                  /\ h.responses[1].status = 400
                  /\ DOMAIN h.responses[1].body = {"error"}

\* a text of three characters whose trimmed length is two was refused
C4_Witness ==
    \E r \in Requests :
        LET h == handler[r]
        IN /\ h.body.text.t = "string"
           /\ Len(h.body.text.v) = 3
           /\ Len(Trim(h.body.text.v)) = 2
           /\ h.calls = <<>>
           /\ Len(h.responses) = 1
           /\ h.responses[1].status = 400

\* C10: for every valid request whose documentType is missing or the empty
\* string, the prompt is built with the default document type.
C10_DefaultDocumentType ==
    \A r \in Requests :
        LET h == handler[r]
        IN (/\ h.calls # <<>>
            /\ \/ h.body.documentType.t = "undefined"
               \/ h.body.documentType = Str(<<>>))
           => \A i \in DOMAIN h.calls :
                 h.calls[i].prompt = BuildPrompt(h.body.text, Str(DefaultDocumentType))

\* C11: within one request each model name is called at most once, for
\* every value of the configured model, also the name of the secondary
\* default; and a request makes no more calls than there are candidates.
C11_EachModelNameOnce ==
    \A r \in Requests :
        LET h == handler[r]
        IN /\ Len(h.calls) <= Len(Candidates(envModel))
           /\ \A i, j \in DOMAIN h.calls :
                i # j => h.calls[i].model # h.calls[j].model

\* C12: every request gets exactly one response (none while the handler
\* runs, one once it has returned); the response is HTTP 200 with a body of
\* content only, or HTTP 400 or 500 with a body of error only; 200 exactly
\* when a candidate succeeded, 400 exactly when the validation failed, 500
\* exactly when all the candidates failed.
C12_ExactlyOneResponse ==
    \A r \in Requests :
        LET h == handler[r]
            candidates == Candidates(envModel)
            succeeded == \E i \in DOMAIN h.calls : h.calls[i].outcome = "ok"
            allFailed == /\ Len(h.calls) = Len(candidates)
                         /\ \A i \in DOMAIN h.calls : h.calls[i].outcome = "failed"
            refused == h.pc # "idle" /\ ~ValidText(h.body.text)
            Sent(status) == h.responses # <<>> /\ h.responses[1].status = status
        IN /\ Len(h.responses) = (IF h.pc = "done" THEN 1 ELSE 0)
           /\ \A i \in DOMAIN h.responses :
                \/ /\ h.responses[i].status = 200
                   /\ DOMAIN h.responses[i].body = {"content"}
                \/ /\ h.responses[i].status \in {400, 500}
                   /\ DOMAIN h.responses[i].body = {"error"}
           /\ Sent(200) <=> succeeded
           /\ Sent(400) <=> refused
           /\ Sent(500) <=> allFailed

(***************************************************************************)
(* Properties of the client (checked under ClientSpec).                    *)
(***************************************************************************)
\* C15: a step of sendSMS, whatever its outcome (no document, no phone
\* number, SMS unavailable, sent, cancelled, a throw), leaves
\* generatedDocument and editedDocument as they were; of the state of the
\* component it changes the error message only.
C15_SmsLeavesDocuments ==
    [][sms' # sms =>
          /\ generatedDocument' = generatedDocument
          /\ editedDocument' = editedDocument
          /\ phoneNumber' = phoneNumber
          /\ isGenerating' = isGenerating
          /\ selectedRecording' = selectedRecording
          /\ generations' = generations
      ]_vars

\* a send of a generated document threw, its error is shown and the
\* document is still there
C15_Witness ==
    \E i \in DOMAIN sms :
        /\ sms[i].outcome = "threw"
        /\ sms[i].document = "doc1"
        /\ generatedDocument = "doc1"
        /\ editedDocument = "doc1"
        /\ error = SmsError("no sim")

\* C22: isGenerating is true exactly while at least one generation request
\* is in flight, whichever of the generate button and the recording history
\* issued the requests and whether they succeed or fail.
C22_GeneratingWhileInFlight ==
    isGenerating <=> \E g \in DOMAIN generations : generations[g].pc = "fetching"

\* C23: the document state follows the most recently issued generation
\* request: when the response of that request is handled, both documents
\* become its content and the error is cleared (success) or both documents
\* are emptied and the error is set (failure); and the response of an
\* earlier request handled after a later request has completed leaves the
\* documents and the error as they are.
C23_LatestRequestWins ==
    [][\A g \in DOMAIN generations :
          (generations[g].pc = "fetching" /\ generations'[g].pc = "done") =>
             /\ g = Len(generations) =>
                  IF generations'[g].outcome = "ok"
                  THEN /\ generatedDocument' = generations'[g].content
                       /\ editedDocument' = generations'[g].content
                       /\ error' = NoError
                  ELSE /\ generatedDocument' = ""
                       /\ editedDocument' = ""
                       /\ error' # NoError
             /\ (\E later \in DOMAIN generations :
                    later > g /\ generations[later].pc = "done") =>
                  UNCHANGED <<generatedDocument, editedDocument, error>>
      ]_vars

(***************************************************************************)
(* Properties of concurrent requests (checked under ConcurrentSpec).       *)
(***************************************************************************)
\* what the calls of a request have returned so far
NumberFailed(calls) == Cardinality({ i \in DOMAIN calls : calls[i].outcome = "failed" })

\* the candidates a request alone has called, given its body and the
\* outcomes of its calls: none for a body that is refused or whose prompt
\* cannot be built, else the first candidate and one more per failure
AttemptsAlone(body, calls, candidates) ==
    IF ~ValidText(body.text) \/ body.documentType.t = "object" THEN <<>>
    ELSE SubSeq(candidates, 1,
                IF NumberFailed(calls) < Len(candidates)
                THEN NumberFailed(calls) + 1 ELSE Len(candidates))

\* the responses a request alone has sent, given its body and the outcomes
\* of its calls
ResponsesAlone(body, calls, candidates) ==
    IF ~ValidText(body.text)
    THEN <<[status |-> 400, body |-> [error |-> ValidationMessage]]>>
    ELSE IF body.documentType.t = "object"
    THEN <<[status |-> 500, body |-> [error |-> ConversionMessage]]>>
    ELSE IF \E i \in DOMAIN calls : calls[i].outcome = "ok"
    THEN LET i == CHOOSE j \in DOMAIN calls : calls[j].outcome = "ok"
         IN <<[status |-> 200, body |-> [content |-> calls[i].content]]>>
    ELSE IF NumberFailed(calls) = Len(candidates)
    THEN LET last == calls[Len(calls)].error
         IN <<[status |-> 500,
               body |-> [error |-> IF last.message # "" THEN last.message
                                   ELSE IF last.kind = "null" THEN GenerationFailed
                                   ELSE UnknownError]]>>
    ELSE <<>>

\* C16: with several requests in flight, interleaved in any way at their
\* model calls, the candidates a request has called and the response it
\* has got are those of the request handled alone: they follow from its own
\* body and the outcomes of its own calls, whatever the other requests
\* carry and wherever they are.
C16_RequestsAreIsolated ==
    \A r \in DOMAIN handler :
        LET h == handler[r]
            candidates == Candidates(envModel)
        IN h.pc # "idle" =>
             /\ [i \in DOMAIN h.calls |-> h.calls[i].model]
                    = AttemptsAlone(h.body, h.calls, candidates)
             /\ \A i \in DOMAIN h.calls :
                    h.calls[i].prompt
                        = BuildPrompt(h.body.text, DocumentTypeOf(h.body.documentType))
             /\ h.responses = ResponsesAlone(h.body, h.calls, candidates)

\* two requests with different bodies were in flight together: the first
\* received failed twice and was answered 500 after the second received
\* had been answered 200
C16_Witness ==
    /\ Len(handler) >= 2
    /\ handler[1].body.documentType # handler[2].body.documentType
    /\ Len(handler[1].calls) = 2 /\ Len(handler[2].calls) = 2
    /\ handler[1].calls[1].outcome = "failed"
    /\ handler[2].calls[1].outcome = "failed"
    /\ handler[2].calls[2].outcome = "ok"
    /\ handler[1].calls[2].outcome = "pending"
    /\ handler[2].responses # <<>> /\ handler[2].responses[1].status = 200
    /\ handler[1].responses = <<>>

\* C18: the prompt depends on (text, documentType) only: any two calls of
\* requests with the same text and the same document type were given the
\* same prompt, whichever candidate each call went to, whichever request
\* came first and whatever failed before; so every candidate of one request
\* is given the same prompt.
C18_PromptDependsOnInputsOnly ==
    \A r, q \in DOMAIN handler :
        (/\ handler[r].text = handler[q].text
         /\ handler[r].documentType = handler[q].documentType)
        => \A i \in DOMAIN handler[r].calls, j \in DOMAIN handler[q].calls :
              handler[r].calls[i].prompt = handler[q].calls[j].prompt

\* two requests with the same text and document type, the second received
\* while the first was in flight, each after a failure at its second
\* candidate
C18_Witness ==
    /\ Len(handler) >= 2
    /\ handler[1].text = handler[2].text
    /\ handler[1].documentType = handler[2].documentType
    /\ Len(handler[1].calls) = 2 /\ Len(handler[2].calls) = 2
    /\ handler[1].calls[1].error.message # handler[2].calls[1].error.message
    /\ handler[1].calls[2].prompt = handler[2].calls[1].prompt
    /\ Len(handler[1].calls[2].prompt) > 3

=============================================================================
